---- MODULE Spec2Model ----
(***************************************************************************)
(* Deal pipeline of the CRM: the Deal table, its DealActivity audit log    *)
(* and the request handlers of apps/pipeline/views.py that mutate them     *)
(* (create, edit, delete, move_deal, close_deal) plus a read-only view.    *)
(* Requests are handled one at a time; the database runs in autocommit     *)
(* mode (no ATOMIC_REQUESTS in config/settings), so every save() is        *)
(* committed on its own and survives an exception raised later in the      *)
(* same handler.                                                           *)
(*                                                                         *)
(* Nullable columns (actual_value, estimated_value, actual_close_date)     *)
(* are sets with at most one element: {} is NULL/None, {v} is the value v. *)
(***************************************************************************)
EXTENDS Integers, Sequences, FiniteSets, TLC

\* ---------------------------------------------------------------- bounds
MaxDeals == 2
MaxTime == 3
\* how many instants before instant 0 the service may have started
MaxLead == 3
\* how many comments are written where the comments are looked at alone
MaxComments == 2

\* ------------------------------------------------------- models.py: Deal
Stage ==
  {"NEW_REQUEST", "ENGAGED", "ESTIMATE_IN_PROGRESS", "ESTIMATE_SENT",
   "FOLLOW_UP", "NEGOTIATION", "CLOSED_WON", "CLOSED_LOST", "DECLINED_TO_BID"}

ACTIVE_STAGES ==
  {"NEW_REQUEST", "ENGAGED", "ESTIMATE_IN_PROGRESS", "ESTIMATE_SENT",
   "FOLLOW_UP", "NEGOTIATION"}

CLOSED_STAGES == {"CLOSED_WON", "CLOSED_LOST", "DECLINED_TO_BID"}

ClosedLostReason == {"PRICE", "TIMELINE", "COMPETITOR", "UNRESPONSIVE", "OTHER"}

DeclinedReason == {"TOO_SMALL", "NOT_OUR_SCOPE", "TIMING", "CAPACITY", "OTHER"}

ActivityType ==
  {"CREATED", "STAGE_CHANGED", "EDITED", "FILE_ADDED", "FILE_REMOVED",
   "COMMENT", "ASSIGNED"}

ScheduleStatus ==
  {"NEW_REQUEST", "SITE_OFFICER_ASSIGNED", "SCHEDULED", "IN_PROGRESS",
   "COMPLETED", "CANCELLED"}

\* ------------------------------------------------------- request inputs
Users == {"u1", "u2"}
\* the users with is_staff set
Staff == {"u2"}
DealIds == 1..MaxDeals
\* a request parameter that is absent from the POST body (Python None)
Missing == "<missing>"
\* stage codes a client may send: the nine stages (the handlers treat the six
\* active ones alike, two stand for them), an unknown code, and no code
StageInputs ==
  {"NEW_REQUEST", "NEGOTIATION", "CLOSED_WON", "CLOSED_LOST",
   "DECLINED_TO_BID", "BOGUS", Missing}
LostReasonInputs == {"", "PRICE", "BOGUS"}
DeclinedReasonInputs == {"", "TOO_SMALL"}
Money == {0, 1}
NullableMoney == {{}} \cup {{v} : v \in Money}
\* position as parsed by int(): a valid one, and one the PositiveIntegerField
\* column refuses
PositionInputs == {0 - 1, 1}

\* clients a deal may be for, probabilities and close notes a form may carry
Clients == {"c1", "c2"}
ProbabilityInputs == {10, 50}
NotesInputs == {"", "late"}

\* source_stage values a client may send with a move: none, the column
\* the card came from, or another column
SourceInputs == {Missing, "NEW_REQUEST", "NEGOTIATION"}
\* names of uploaded files
FileNames == {"a.pdf", "b.pdf"}
\* status codes a client may send to the schedule status endpoint
StatusInputs == {"IN_PROGRESS", "COMPLETED", "CANCELLED", "BOGUS"}
\* primary keys of files, schedules and comments: one is handed out per
\* request at most
RowIds == 1..MaxTime
\* the same for a service started early
EarlyRowIds == 1..(MaxTime + MaxLead)

\* Python truthiness of a nullable Decimal: None and Decimal(0) are falsy
Truthy(v) == v # {} /\ v # {0}

\* ---------------------------------------------------------------- state
VARIABLES
  deals,       \* Deal rows: [live -> row]
  live,        \* primary keys of the rows in the deals table
  nextId,      \* number of deals created so far (uuid4 keys are never reused)
  activities,  \* DealActivity rows per deal, oldest first: [live -> Seq]
  files,       \* DealFile rows by primary key
  nextFile,    \* number of files uploaded so far
  schedules,   \* DealSchedule rows by primary key
  nextSchedule,
  comments,    \* DealComment rows by primary key
  nextComment,
  now,         \* timezone.now(); every request is handled at a later instant
  last,        \* the request handled last and its response: the status and,
               \* where the response renders one, the requested stage
  context,     \* the template context of that response, where the claims
               \* read it: the Kanban board and the move_deal counters
  inflight     \* per user, the request of that user a worker is handling
               \* statement by statement: its position and its local variables

fileTable == <<files, nextFile>>
scheduleTable == <<schedules, nextSchedule>>
commentTable == <<comments, nextComment>>
dealTable == <<deals, live, nextId>>

vars ==
  <<deals, live, nextId, activities, files, nextFile, schedules, nextSchedule,
    comments, nextComment, now, last, context, inflight>>

\* the rows of table f with a key in S
Restrict(f, S) == [x \in S |-> f[x]]

\* table f with row r added under key k
Insert(f, k, r) == [x \in DOMAIN f \cup {k} |-> IF x = k THEN r ELSE f[x]]

Activity(type, old, new, user) ==
  [activity_type |-> type, old_value |-> old, new_value |-> new, user |-> user]

Response(op, d, stage, status) ==
  [op |-> op, deal |-> d, stage |-> stage, status |-> status]

\* a response whose context is not modelled
NoContext == [x \in {} |-> 0]

\* no request of the user is being handled
Idle == [pc |-> "idle"]

\* DealActivity.objects.create(deal=d, ...)
Log_newest_first(d, a) == [activities EXCEPT ![d] = <<a>> \o @]

Log(d, a) == [activities EXCEPT ![d] = Append(@, a)]

Init ==
  /\ deals = [x \in {} |-> 0]
  /\ live = {}
  /\ nextId = 0
  /\ activities = [x \in {} |-> 0]
  /\ files = [x \in {} |-> 0]
  /\ nextFile = 0
  /\ schedules = [x \in {} |-> 0]
  /\ nextSchedule = 0
  /\ comments = [x \in {} |-> 0]
  /\ nextComment = 0
  /\ now = 0
  /\ last = Response("none", 0, "", "")
  /\ context = NoContext
  /\ inflight = [u \in Users |-> Idle]

\* the state after construction of a service started MaxLead instants
\* earlier: it handles MaxLead more requests up to instant MaxTime
InitEarly ==
  /\ deals = [x \in {} |-> 0]
  /\ live = {}
  /\ nextId = 0
  /\ activities = [x \in {} |-> 0]
  /\ files = [x \in {} |-> 0]
  /\ nextFile = 0
  /\ schedules = [x \in {} |-> 0]
  /\ nextSchedule = 0
  /\ comments = [x \in {} |-> 0]
  /\ nextComment = 0
  /\ now = 0 - MaxLead
  /\ last = Response("none", 0, "", "")
  /\ context = NoContext
  /\ inflight = [u \in Users |-> Idle]

\* -------------------------------------------------------------- Deal.save
\* Deal.save as it would be without the "not self.actual_close_date" test
Deal_save_overwrite(exists, old, self, t) ==
  IF exists /\ old.stage # self.stage
  THEN [self EXCEPT
          !.stage_changed_at = t,
          !.actual_close_date = IF self.stage \in CLOSED_STAGES THEN {t} ELSE @]
  ELSE self

\* Deal.save as it would be if it stamped stage_changed_at on every update
Deal_save_touch(exists, old, self, t) ==
  IF exists
  THEN [self EXCEPT
          !.stage_changed_at = t,
          !.actual_close_date =
             IF old.stage # self.stage /\ self.stage \in CLOSED_STAGES
                /\ self.actual_close_date = {}
             THEN {t} ELSE @]
  ELSE self

\* Deal.save as it would be if it dated every save of a closed deal
Deal_save_redate(exists, old, self, t) ==
  IF exists
  THEN [self EXCEPT
          !.stage_changed_at = IF old.stage # self.stage THEN t ELSE @,
          !.actual_close_date = IF self.stage \in CLOSED_STAGES THEN {t} ELSE @]
  ELSE self

\* exists/old: the row Deal.objects.get(pk=self.pk) finds, if any; self: the
\* instance being saved; t: timezone.now().  The result is the row written.
Deal_save(exists, old, self, t) ==
  IF exists /\ old.stage # self.stage
  THEN [self EXCEPT
          !.stage_changed_at = t,
          !.actual_close_date =
             IF self.stage \in CLOSED_STAGES /\ self.actual_close_date = {}
             THEN {t} ELSE @]
  ELSE self

\* the columns refuse the row: stage is NOT NULL, position has CHECK (>= 0)
IntegrityError(self) == self.stage = Missing \/ self.position < 0

\* ------------------------------------------------------------ forms.py
DealFormFields ==
  {"stage", "estimated_value", "actual_value", "closed_lost_reason",
   "declined_reason", "probability", "close_notes", "owner", "client"}

\* what the form posts: the values it was rendered with (init), the user
\* having changed at most one field
DealFormInputs(init) ==
  {init}
  \cup {[init EXCEPT !.stage = v] : v \in StageInputs}
  \cup {[init EXCEPT !.estimated_value = v] : v \in NullableMoney}
  \cup {[init EXCEPT !.actual_value = v] : v \in NullableMoney}
  \cup {[init EXCEPT !.closed_lost_reason = v] : v \in LostReasonInputs}
  \cup {[init EXCEPT !.declined_reason = v] : v \in DeclinedReasonInputs}

\* the same form with one of the fields a move has no business with changed
\* instead: probability, close_notes, owner or client
DealFormDetails(init) ==
  {init}
  \cup {[init EXCEPT !.probability = v] : v \in ProbabilityInputs}
  \cup {[init EXCEPT !.close_notes = v] : v \in NotesInputs}
  \cup {[init EXCEPT !.owner = v] : v \in Users}
  \cup {[init EXCEPT !.client = v] : v \in Clients}
  \cup {[init EXCEPT !.actual_value = v] : v \in NullableMoney}
  \cup {[init EXCEPT !.estimated_value = v] : v \in NullableMoney}

\* the unbound DealForm of DealCreateView: the model's field defaults, the
\* owner DealCreateView.get_initial fills in (the forms are filled in by u1)
\* and the client picked first
DealForm_initial ==
  [stage |-> "NEW_REQUEST", estimated_value |-> {}, actual_value |-> {},
   closed_lost_reason |-> "", declined_reason |-> "",
   probability |-> 50, close_notes |-> "", owner |-> "u1", client |-> "c1"]

\* the DealForm of DealUpdateView, bound to the instance
DealForm_of(deal) ==
  [k \in DealFormFields |-> deal[k]]

\* ModelForm validation of DealForm: choices of stage and of the two reasons
\* (both reasons blank=True); the form has no clean() of its own
DealForm_is_valid(f) ==
  /\ f.stage \in Stage
  /\ f.closed_lost_reason \in {""} \cup ClosedLostReason
  /\ f.declined_reason \in {""} \cup DeclinedReason

\* what the close modal posts; the fields the handler does not read for the
\* posted stage are left as rendered (blank)
DealCloseFormInputs ==
  {f \in [stage : StageInputs, closed_lost_reason : LostReasonInputs,
          declined_reason : DeclinedReasonInputs, actual_value : NullableMoney,
          close_notes : {""}] :
     /\ f.stage # "CLOSED_WON" => f.actual_value = {}
     /\ f.stage \notin {"CLOSED_LOST", "DECLINED_TO_BID"} =>
          f.closed_lost_reason = "" /\ f.declined_reason = ""}

\* the close modal with notes typed in as well
DealCloseFormNotes ==
  {[f EXCEPT !.close_notes = v] : f \in DealCloseFormInputs, v \in NotesInputs}

\* DealCloseForm as it would be without its clean()
DealCloseForm_is_valid_noclean(f) ==
  /\ f.stage \in CLOSED_STAGES
  /\ f.closed_lost_reason \in {""} \cup ClosedLostReason
  /\ f.declined_reason \in {""} \cup DeclinedReason

\* DealCloseForm: field validation, then clean()
DealCloseForm_is_valid(f) ==
  /\ f.stage \in CLOSED_STAGES
  /\ f.closed_lost_reason \in {""} \cup ClosedLostReason
  /\ f.declined_reason \in {""} \cup DeclinedReason
  /\ ~(f.stage = "CLOSED_LOST" /\ f.closed_lost_reason = "")
  /\ ~(f.stage = "DECLINED_TO_BID" /\ f.declined_reason = "")

\* ------------------------------------------------------------- views.py
\* every handler answers its request at the next instant; a handler that
\* runs from the request to the response without another worker in between
Render(op, d, stage, status, ctx) ==
  /\ now' = now + 1
  /\ last' = Response(op, d, stage, status)
  /\ context' = ctx
  /\ UNCHANGED inflight

Reply(op, d, stage, status) == Render(op, d, stage, status, NoContext)

NotFound(op, d) ==
  /\ Reply(op, d, "", "not_found")
  /\ UNCHANGED <<deals, live, nextId, activities>>

\* comments on_delete=CASCADE: the comments of set and all replies below them
RECURSIVE Replies(_)
Replies(set) ==
  LET more == set \cup {c \in DOMAIN comments : comments[c].parent \cap set # {}}
  IN IF more = set THEN set ELSE Replies(more)

\* DealCreateView.post -> form_valid / form_invalid
DealCreate(u, f) ==
  /\ now < MaxTime
  /\ UNCHANGED <<fileTable, scheduleTable, commentTable>>
  /\ nextId < MaxDeals
  /\ IF DealForm_is_valid(f)
     THEN LET id == nextId + 1
              t == now + 1
              inst == [stage |-> f.stage, position |-> 0,
                       stage_changed_at |-> t, actual_close_date |-> {},
                       estimated_value |-> f.estimated_value,
                       actual_value |-> f.actual_value,
                       closed_lost_reason |-> f.closed_lost_reason,
                       declined_reason |-> f.declined_reason,
                       probability |-> f.probability,
                       close_notes |-> f.close_notes,
                       owner |-> f.owner,
                       client |-> f.client]
              \* id has its uuid4 default, so save() looks the row up and
              \* gets DoesNotExist
              row == Deal_save(FALSE, inst, inst, t)
          IN /\ live' = live \cup {id}
             /\ nextId' = id
             /\ deals' = [x \in live \cup {id} |-> IF x = id THEN row ELSE deals[x]]
             /\ activities' =
                  [x \in live \cup {id} |->
                     IF x = id THEN <<Activity("CREATED", "", "", u)>>
                     ELSE activities[x]]
             /\ Reply("create", id, f.stage, "ok")
     ELSE /\ Reply("create", 0, "", "invalid")
          /\ UNCHANGED <<deals, live, nextId, activities>>

\* DealUpdateView.post -> form_valid / form_invalid
DealUpdate(d, u, f) ==
  /\ now < MaxTime
  /\ UNCHANGED <<fileTable, scheduleTable, commentTable>>
  /\ d \in live
  /\ IF DealForm_is_valid(f)
     THEN LET inst == [deals[d] EXCEPT
                         !.stage = f.stage,
                         !.estimated_value = f.estimated_value,
                         !.actual_value = f.actual_value,
                         !.closed_lost_reason = f.closed_lost_reason,
                         !.declined_reason = f.declined_reason,
                         !.probability = f.probability,
                         !.close_notes = f.close_notes,
                         !.owner = f.owner,
                         !.client = f.client]
          IN /\ deals' = [deals EXCEPT ![d] = Deal_save(TRUE, deals[d], inst, now + 1)]
             /\ activities' = Log(d, Activity("EDITED", "", "", u))
             /\ Reply("edit", d, f.stage, "ok")
             /\ UNCHANGED <<live, nextId>>
     ELSE /\ Reply("edit", d, "", "invalid")
          /\ UNCHANGED <<deals, live, nextId, activities>>

\* DealDeleteView.post: the row goes; its activities, files, schedules and
\* comments cascade, and so do the replies to its comments
DealDelete(d, u) ==
  /\ now < MaxTime
  /\ IF d \notin live
     THEN /\ NotFound("delete", d)
          /\ UNCHANGED <<fileTable, scheduleTable, commentTable>>
     ELSE /\ live' = live \ {d}
          /\ deals' = Restrict(deals, live \ {d})
          /\ activities' = Restrict(activities, live \ {d})
          /\ files' = Restrict(files, {x \in DOMAIN files : files[x].deal # d})
          /\ schedules' =
               Restrict(schedules, {x \in DOMAIN schedules : schedules[x].deal # d})
          /\ comments' =
               Restrict(comments,
                        DOMAIN comments
                          \ Replies({c \in DOMAIN comments : comments[c].deal = d}))
          /\ Reply("delete", d, "", "ok")
          /\ UNCHANGED <<nextId, nextFile, nextSchedule, nextComment>>

\* DealDetailView.get
DealDetail(d, u) ==
  /\ now < MaxTime
  /\ UNCHANGED <<fileTable, scheduleTable, commentTable>>
  /\ Reply("detail", d, "", IF d \in live THEN "ok" ELSE "not_found")
  /\ UNCHANGED <<deals, live, nextId, activities>>

\* Deal.Stage(code).label raises ValueError for a code outside the enumeration
Stage_label_raises(code) == code \notin Stage

\* the entry as it would be if old_stage were read after deal.stage was set
StageChanged_stale(old_stage, new_stage, user) ==
  Activity("STAGE_CHANGED", new_stage, new_stage, user)

\* the entry MoveDealView.post and CloseDealView.post log; old_stage was read
\* before the instance was changed
StageChanged(old_stage, new_stage, user) ==
  Activity("STAGE_CHANGED", old_stage, new_stage, user)

\* MoveDealView.post as it would be without the Closed Won default
MoveDeal_instance_nodefault(deal, new_stage, position) ==
  [deal EXCEPT !.stage = new_stage, !.position = position]

\* the instance MoveDealView.post hands to save()
MoveDeal_instance(deal, new_stage, position) ==
  [deal EXCEPT
     !.stage = new_stage,
     !.position = position,
     !.actual_value =
        IF new_stage = "CLOSED_WON" /\ ~Truthy(deal.actual_value)
        THEN deal.estimated_value ELSE @]

\* Deal.get_stage_order()
get_stage_order ==
  <<"NEW_REQUEST", "ENGAGED", "ESTIMATE_IN_PROGRESS", "ESTIMATE_SENT",
    "FOLLOW_UP", "NEGOTIATION", "CLOSED_WON", "CLOSED_LOST", "DECLINED_TO_BID">>

\* Python's "x or 0" on a nullable Decimal
OrZero(v) == IF Truthy(v) THEN CHOOSE x \in v : TRUE ELSE 0

\* Deal.objects.filter(stage__in=stages) on the table
Deal_filter(table, stages) == {d \in DOMAIN table : table[d].stage \in stages}

RECURSIVE SumOver(_, _)
SumOver(table, rows) ==
  IF rows = {} THEN 0
  ELSE LET d == CHOOSE x \in rows : TRUE
       IN (CHOOSE v \in table[d].estimated_value : TRUE) + SumOver(table, rows \ {d})

\* .aggregate(total=Sum('estimated_value'))['total']: SQL SUM skips NULLs and
\* is NULL when no row carries a value
Aggregate_Sum(table, rows) ==
  LET valued == {d \in rows : table[d].estimated_value # {}}
  IN IF valued = {} THEN {} ELSE {SumOver(table, valued)}

\* ----------------------------------------------------- KanbanBoardView
\* Deal.objects.order_by('position', '-created_at') as a list of primary
\* keys; a key handed out later belongs to a row created later
RECURSIVE all_deals(_, _)
all_deals(table, rows) ==
  IF rows = {} THEN <<>>
  ELSE LET first ==
             CHOOSE d \in rows :
               \A e \in rows :
                  \/ table[d].position < table[e].position
                  \/ table[d].position = table[e].position /\ d >= e
       IN <<first>> \o all_deals(table, rows \ {first})

\* the grouping loop of get_context_data over the first n deals of the list
RECURSIVE deals_by_stage(_, _, _)
deals_by_stage(table, list, n) ==
  IF n = 0 THEN [x \in {} |-> <<>>]
  ELSE LET groups == deals_by_stage(table, list, n - 1)
           stage == table[list[n]].stage
       IN IF stage \notin DOMAIN groups
          THEN Insert(groups, stage, <<list[n]>>)
          ELSE [groups EXCEPT ![stage] = Append(@, list[n])]

\* sum(d.estimated_value or 0 for d in stage_deals) as it would be if it
\* summed one for every deal
stage_total_counting(table, stage_deals) == Len(stage_deals)

\* sum(d.estimated_value or 0 for d in stage_deals)
RECURSIVE stage_total(_, _)
stage_total(table, stage_deals) ==
  IF stage_deals = <<>> THEN 0
  ELSE OrZero(table[Head(stage_deals)].estimated_value)
         + stage_total(table, Tail(stage_deals))

\* the stages_data list get_context_data builds
stages_data(table) ==
  LET list == all_deals(table, DOMAIN table)
      groups == deals_by_stage(table, list, Len(list))
  IN [i \in DOMAIN get_stage_order |->
        LET stage_deals == IF get_stage_order[i] \in DOMAIN groups
                           THEN groups[get_stage_order[i]] ELSE <<>>
        IN [stage |-> get_stage_order[i],
            deals |-> stage_deals,
            count |-> Len(stage_deals),
            total_value |-> stage_total(table, stage_deals)]]

\* total_pipeline_value as it would be without the test on ACTIVE_STAGES
RECURSIVE total_pipeline_value_all(_, _)
total_pipeline_value_all(data, n) ==
  IF n = 0 THEN 0
  ELSE total_pipeline_value_all(data, n - 1) + data[n].total_value

\* total_pipeline_value after the first n rounds of the loop over the stages
RECURSIVE total_pipeline_value(_, _)
total_pipeline_value(data, n) ==
  IF n = 0 THEN 0
  ELSE total_pipeline_value(data, n - 1)
         + IF data[n].stage \in ACTIVE_STAGES THEN data[n].total_value ELSE 0

\* KanbanBoardView.get_context_data
KanbanBoardView_context(table) ==
  [stages |-> stages_data(table),
   total_pipeline_value |->
      total_pipeline_value(stages_data(table), Len(get_stage_order))]

\* KanbanBoardView.get
KanbanBoard(u) ==
  /\ now < MaxTime
  /\ UNCHANGED <<dealTable, activities, fileTable, scheduleTable, commentTable>>
  /\ Render("board", 0, "", "ok", KanbanBoardView_context(deals))

\* -------------------------------------------------------- MoveDealView
\* the counters MoveDealView.post computes after the save, one query each
MoveDeal_context(table, source_stage, new_stage) ==
  LET given == source_stage \notin {Missing, ""}
  IN [source_stage |-> source_stage,
      source_count |->
         IF given THEN Cardinality(Deal_filter(table, {source_stage})) ELSE 0,
      target_count |-> Cardinality(Deal_filter(table, {new_stage})),
      source_value |->
         IF given
         THEN OrZero(Aggregate_Sum(table, Deal_filter(table, {source_stage})))
         ELSE 0,
      target_stage |-> new_stage,
      target_value |-> OrZero(Aggregate_Sum(table, Deal_filter(table, {new_stage}))),
      total_pipeline |->
         OrZero(Aggregate_Sum(table, Deal_filter(table, ACTIVE_STAGES)))]

\* MoveDealView.post
MoveDealView(d, u, new_stage, source_stage, position) ==
  /\ now < MaxTime
  /\ UNCHANGED <<fileTable, scheduleTable, commentTable>>
  /\ IF d \notin live THEN NotFound("move_deal", d)
     ELSE IF new_stage \in {"CLOSED_LOST", "DECLINED_TO_BID"}
     THEN \* the close modal is rendered, nothing is written
          /\ Reply("move_deal", d, new_stage, "needs_reason")
          /\ UNCHANGED <<deals, live, nextId, activities>>
     ELSE LET old_stage == deals[d].stage
              inst == MoveDeal_instance(deals[d], new_stage, position)
              saved == [deals EXCEPT ![d] = Deal_save(TRUE, deals[d], inst, now + 1)]
          IN IF IntegrityError(inst)
             THEN /\ Reply("move_deal", d, "", "error")
                  /\ UNCHANGED <<deals, live, nextId, activities>>
             ELSE /\ deals' = saved
                  /\ UNCHANGED <<live, nextId>>
                  /\ IF Stage_label_raises(old_stage) \/ Stage_label_raises(new_stage)
                     THEN \* the row is committed, building the description raises
                          /\ UNCHANGED activities
                          /\ Reply("move_deal", d, "", "error")
                     ELSE /\ activities' =
                               Log(d, StageChanged(old_stage, new_stage, u))
                          /\ Render("move_deal", d, new_stage, "ok",
                                    MoveDeal_context(saved, source_stage, new_stage))

\* a move by a client that sends no source_stage
MoveDeal(d, u, new_stage, position) ==
  MoveDealView(d, u, new_stage, Missing, position)

\* ------------------------------------- MoveDealView.post, by statement
\* Each request runs in autocommit: the SELECT of get_object_or_404, the
\* SELECT of Deal.save, the UPDATE of Deal.save and the INSERT of the
\* activity are four statements, and statements of another worker may come
\* between them.

\* A request takes its instant of the clock when it commits its write, or
\* when it answers without one.

\* the tables are as they were
NoWrite ==
  UNCHANGED <<dealTable, activities, fileTable, scheduleTable, commentTable>>

\* get_object_or_404, the test on the closing stages and the assignments
MoveDealView_read(u, d, new_stage, position) ==
  /\ inflight[u].pc \in {"idle", "done"}
  /\ now < MaxTime
  /\ NoWrite
  /\ IF d \notin live
     THEN /\ now' = now + 1
          /\ last' = Response("move_deal", d, "", "not_found")
          /\ context' = NoContext
          /\ inflight' = [inflight EXCEPT ![u] = Idle]
     ELSE IF new_stage \in {"CLOSED_LOST", "DECLINED_TO_BID"}
     THEN /\ now' = now + 1
          /\ last' = Response("move_deal", d, new_stage, "needs_reason")
          /\ context' = NoContext
          /\ inflight' = [inflight EXCEPT ![u] = Idle]
     ELSE /\ inflight' =
               [inflight EXCEPT ![u] =
                  [pc |-> "assigned", deal |-> d, new_stage |-> new_stage,
                   old_stage |-> deals[d].stage,
                   instance |-> MoveDeal_instance(deals[d], new_stage, position),
                   committed_at |-> {}]]
          /\ UNCHANGED <<now, last, context>>

\* Deal.save up to super().save(): the stored row is read and compared
Deal_save_get(u) ==
  /\ inflight[u].pc = "assigned"
  /\ NoWrite
  /\ UNCHANGED <<now, last, context>>
  /\ LET r == inflight[u]
         exists == r.deal \in live
         old == IF exists THEN deals[r.deal] ELSE r.instance
     IN inflight' =
          [inflight EXCEPT ![u] =
             [r EXCEPT !.pc = "compared",
                       !.instance = Deal_save(exists, old, r.instance, now + 1)]]

\* super().save() as it would be if it refused a row that another request
\* changed since this request read it
Deal_save_write_first_wins(u) ==
  /\ inflight[u].pc = "compared"
  /\ now < MaxTime
  /\ now' = now + 1
  /\ UNCHANGED <<fileTable, scheduleTable, commentTable, nextId, live,
                 activities, last, context>>
  /\ LET r == inflight[u]
     IN /\ deals' = IF deals[r.deal].stage = r.old_stage
                    THEN Insert(deals, r.deal, r.instance) ELSE deals
        /\ inflight' =
             [inflight EXCEPT ![u] =
                [r EXCEPT !.pc = "saved", !.committed_at = {now + 1}]]

\* super().save(): every column of the row is written from the instance
Deal_save_write(u) ==
  /\ inflight[u].pc = "compared"
  /\ now < MaxTime
  /\ now' = now + 1
  /\ UNCHANGED <<fileTable, scheduleTable, commentTable, nextId>>
  /\ LET r == inflight[u]
     IN IF IntegrityError(r.instance)
        THEN /\ last' = Response("move_deal", r.deal, "", "error")
             /\ context' = NoContext
             /\ inflight' = [inflight EXCEPT ![u] = Idle]
             /\ UNCHANGED <<deals, live, activities>>
        ELSE /\ deals' = Insert(deals, r.deal, r.instance)
             /\ live' = live \cup {r.deal}
             /\ activities' =
                  IF r.deal \in live THEN activities
                  ELSE Insert(activities, r.deal, <<>>)
             /\ inflight' =
                  [inflight EXCEPT ![u] =
                     [r EXCEPT !.pc = "saved", !.committed_at = {now + 1}]]
             /\ UNCHANGED <<last, context>>

\* DealActivity.objects.create, the counter queries and the response
MoveDealView_log(u) ==
  /\ inflight[u].pc = "saved"
  /\ UNCHANGED <<now, dealTable, fileTable, scheduleTable, commentTable>>
  /\ LET r == inflight[u]
     IN IF \/ Stage_label_raises(r.old_stage)
           \/ Stage_label_raises(r.new_stage)
           \/ r.deal \notin live
        THEN /\ UNCHANGED activities
             /\ last' = Response("move_deal", r.deal, "", "error")
             /\ context' = NoContext
             /\ inflight' = [inflight EXCEPT ![u] = Idle]
        ELSE /\ activities' = Log(r.deal, StageChanged(r.old_stage, r.new_stage, u))
             /\ last' = Response("move_deal", r.deal, r.new_stage, "ok")
             /\ context' = MoveDeal_context(deals, Missing, r.new_stage)
             /\ inflight' = [inflight EXCEPT ![u] = [r EXCEPT !.pc = "done"]]

\* the instance CloseDealView.post hands to save() when the form is valid
CloseDeal_instance(deal, f) ==
  [deal EXCEPT
     !.stage = f.stage,
     !.closed_lost_reason =
        IF f.stage = "CLOSED_LOST" THEN f.closed_lost_reason ELSE @,
     !.declined_reason =
        IF f.stage = "DECLINED_TO_BID" THEN f.declined_reason ELSE @,
     !.actual_value =
        IF f.stage = "CLOSED_WON"
        THEN IF Truthy(f.actual_value) THEN f.actual_value
             ELSE IF ~Truthy(deal.actual_value) THEN deal.estimated_value
             ELSE @
        ELSE @,
     !.close_notes = IF f.close_notes # "" THEN f.close_notes ELSE @]

\* CloseDealView.post
CloseDeal(d, u, f) ==
  /\ now < MaxTime
  /\ UNCHANGED <<fileTable, scheduleTable, commentTable>>
  /\ IF d \notin live THEN NotFound("close_deal", d)
     ELSE IF DealCloseForm_is_valid(f)
     THEN LET old_stage == deals[d].stage
              inst == CloseDeal_instance(deals[d], f)
          IN /\ deals' = [deals EXCEPT ![d] = Deal_save(TRUE, deals[d], inst, now + 1)]
             /\ activities' =
                  Log(d, StageChanged(old_stage, f.stage, u))
             /\ Reply("close_deal", d, f.stage, "ok")
             /\ UNCHANGED <<live, nextId>>
     ELSE /\ Reply("close_deal", d, f.stage, "invalid")
          /\ UNCHANGED <<deals, live, nextId, activities>>

\* --------------------------------------------------------------- files
\* the lookup as it would be if it found nothing
DealFile_existing_none(d, name) == {}

\* the lookup as it would be without is_current=True
DealFile_existing_any(d, name) ==
  LET same == {x \in DOMAIN files :
                 files[x].deal = d /\ files[x].original_filename = name}
  IN {x \in same : \A y \in same : y <= x}

\* DealFileUploadView.form_valid's lookup:
\* filter(deal, original_filename, is_current=True).first() under the
\* ordering -uploaded_at, as a set of at most one primary key
DealFile_existing(d, name) ==
  LET cur == {x \in DOMAIN files :
                /\ files[x].deal = d
                /\ files[x].original_filename = name
                /\ files[x].is_current}
  IN {x \in cur : \A y \in cur : y <= x}

\* DealFileUploadView.post; clean_file turns down a wrong extension or a
\* file over 10 MB (accepted = FALSE)
DealFileUpload(d, u, name, accepted) ==
  /\ now < MaxTime
  /\ UNCHANGED <<dealTable, scheduleTable, commentTable>>
  /\ IF ~accepted
     THEN /\ Reply("file_upload", d, "", "invalid")
          /\ UNCHANGED <<activities, fileTable>>
     ELSE IF d \notin live
     THEN /\ Reply("file_upload", d, "", "not_found")
          /\ UNCHANGED <<activities, fileTable>>
     ELSE LET existing == DealFile_existing(d, name)
              row == [deal |-> d,
                      original_filename |-> name,
                      version |-> IF existing = {} THEN 1
                                  ELSE files[CHOOSE x \in existing : TRUE].version + 1,
                      is_current |-> TRUE,
                      previous_version |-> existing,
                      uploaded_by |-> u]
              demoted == [x \in DOMAIN files |->
                            IF x \in existing
                            THEN [files[x] EXCEPT !.is_current = FALSE]
                            ELSE files[x]]
          IN /\ nextFile' = nextFile + 1
             /\ files' = Insert(demoted, nextFile + 1, row)
             /\ activities' = Log(d, Activity("FILE_ADDED", "", "", u))
             /\ Reply("file_upload", d, "", "ok")

\* ------------------------------ DealFileUploadView.form_valid, by statement
\* get_object_or_404 and the lookup of the current file of the name; the
\* request keeps the row it read
DealFileUpload_lookup(u, d, name) ==
  /\ inflight[u].pc \in {"idle", "done"}
  /\ now < MaxTime
  /\ NoWrite
  /\ IF d \notin live
     THEN /\ now' = now + 1
          /\ last' = Response("file_upload", d, "", "not_found")
          /\ context' = NoContext
          /\ inflight' = [inflight EXCEPT ![u] = Idle]
     ELSE /\ LET existing == DealFile_existing(d, name)
             IN inflight' =
                  [inflight EXCEPT ![u] =
                     [pc |-> "found", deal |-> d, name |-> name,
                      existing |-> existing,
                      row |-> {files[x] : x \in existing},
                      object |-> {}]]
          /\ UNCHANGED <<now, last, context>>

\* existing.is_current = False; existing.save(): the row as it was read is
\* written back with the flag cleared
DealFileUpload_demote(u) ==
  /\ inflight[u].pc = "found"
  /\ UNCHANGED <<dealTable, activities, scheduleTable, commentTable, nextFile>>
  /\ UNCHANGED <<now, last, context>>
  /\ LET r == inflight[u]
     IN /\ files' =
             IF r.existing = {} THEN files
             ELSE Insert(files, CHOOSE x \in r.existing : TRUE,
                         [(CHOOSE row \in r.row : TRUE) EXCEPT !.is_current = FALSE])
        /\ inflight' = [inflight EXCEPT ![u] = [r EXCEPT !.pc = "demoted"]]

\* super().form_valid(form): the new row is inserted
DealFileUpload_insert(u) ==
  /\ inflight[u].pc = "demoted"
  /\ now < MaxTime
  /\ now' = now + 1
  /\ UNCHANGED <<dealTable, activities, scheduleTable, commentTable>>
  /\ UNCHANGED <<last, context>>
  /\ LET r == inflight[u]
         row == [deal |-> r.deal,
                 original_filename |-> r.name,
                 version |-> IF r.existing = {} THEN 1
                             ELSE (CHOOSE old \in r.row : TRUE).version + 1,
                 is_current |-> TRUE,
                 previous_version |-> r.existing,
                 uploaded_by |-> u]
     IN /\ nextFile' = nextFile + 1
        /\ files' = Insert(files, nextFile + 1, row)
        /\ inflight' =
             [inflight EXCEPT ![u] =
                [r EXCEPT !.pc = "saved", !.object = {nextFile + 1}]]

\* DealActivity.objects.create and the response
DealFileUpload_log(u) ==
  /\ inflight[u].pc = "saved"
  /\ UNCHANGED <<now, dealTable, fileTable, scheduleTable, commentTable>>
  /\ LET r == inflight[u]
     IN /\ activities' = Log(r.deal, Activity("FILE_ADDED", "", "", u))
        /\ last' = Response("file_upload", r.deal, "", "ok")
        /\ context' = NoContext
        /\ inflight' = [inflight EXCEPT ![u] = [r EXCEPT !.pc = "done"]]

\* DealFileDeleteView.delete as it would be if it made the previous version
\* current again
DealFileDelete_promote(x, u) ==
  /\ now < MaxTime
  /\ UNCHANGED <<dealTable, scheduleTable, commentTable, nextFile>>
  /\ IF x \notin DOMAIN files
     THEN /\ Reply("file_delete", 0, "", "not_found")
          /\ UNCHANGED <<activities, files>>
     ELSE /\ activities' = Log(files[x].deal, Activity("FILE_REMOVED", "", "", u))
          /\ files' = [y \in DOMAIN files \ {x} |->
                         [files[y] EXCEPT
                            !.previous_version = @ \ {x},
                            !.is_current = @ \/ y \in files[x].previous_version]]
          /\ Reply("file_delete", files[x].deal, "", "ok")

\* DealFileDeleteView.delete: the entry is written, then the row goes;
\* previous_version is on_delete=SET_NULL
DealFileDelete(x, u) ==
  /\ now < MaxTime
  /\ UNCHANGED <<dealTable, scheduleTable, commentTable, nextFile>>
  /\ IF x \notin DOMAIN files
     THEN /\ Reply("file_delete", 0, "", "not_found")
          /\ UNCHANGED <<activities, files>>
     ELSE /\ activities' = Log(files[x].deal, Activity("FILE_REMOVED", "", "", u))
          /\ files' = [y \in DOMAIN files \ {x} |->
                         [files[y] EXCEPT !.previous_version = @ \ {x}]]
          /\ Reply("file_delete", files[x].deal, "", "ok")

\* ----------------------------------------------------------- schedules
\* DealSchedule.save
DealSchedule_save(self, t) ==
  IF self.status = "COMPLETED" /\ self.completed_at = {}
  THEN [self EXCEPT !.completed_at = {t}]
  ELSE self

\* DealScheduleCreateView.post; DealScheduleForm.clean turns down an OTHER
\* event without a custom type and a recurring event without a pattern
DealScheduleCreate(d, u, accepted) ==
  /\ now < MaxTime
  /\ UNCHANGED <<dealTable, fileTable, commentTable>>
  /\ IF ~accepted
     THEN /\ Reply("schedule_add", d, "", "invalid")
          /\ UNCHANGED <<activities, scheduleTable>>
     ELSE IF d \notin live
     THEN /\ Reply("schedule_add", d, "", "not_found")
          /\ UNCHANGED <<activities, scheduleTable>>
     ELSE LET row == [deal |-> d, status |-> "NEW_REQUEST", completed_at |-> {},
                      created_by |-> u]
          IN /\ nextSchedule' = nextSchedule + 1
             /\ schedules' = Insert(schedules, nextSchedule + 1,
                                    DealSchedule_save(row, now + 1))
             /\ activities' = Log(d, Activity("EDITED", "", "", u))
             /\ Reply("schedule_add", d, "", "ok")

\* DealScheduleUpdateView.post: the form carries no status field
DealScheduleUpdate(x, u, accepted) ==
  /\ now < MaxTime
  /\ UNCHANGED <<dealTable, fileTable, commentTable, nextSchedule>>
  /\ IF x \notin DOMAIN schedules
     THEN /\ Reply("schedule_edit", 0, "", "not_found")
          /\ UNCHANGED <<activities, schedules>>
     ELSE IF ~accepted
     THEN /\ Reply("schedule_edit", schedules[x].deal, "", "invalid")
          /\ UNCHANGED <<activities, schedules>>
     ELSE /\ schedules' =
               [schedules EXCEPT ![x] = DealSchedule_save(@, now + 1)]
          /\ activities' = Log(schedules[x].deal, Activity("EDITED", "", "", u))
          /\ Reply("schedule_edit", schedules[x].deal, "", "ok")

\* DealScheduleDeleteView.delete
DealScheduleDelete(x, u) ==
  /\ now < MaxTime
  /\ UNCHANGED <<dealTable, fileTable, commentTable, nextSchedule>>
  /\ IF x \notin DOMAIN schedules
     THEN /\ Reply("schedule_remove", 0, "", "not_found")
          /\ UNCHANGED <<activities, schedules>>
     ELSE /\ activities' = Log(schedules[x].deal, Activity("EDITED", "", "", u))
          /\ schedules' = Restrict(schedules, DOMAIN schedules \ {x})
          /\ Reply("schedule_remove", schedules[x].deal, "", "ok")

\* DealScheduleCompleteView.post: DealScheduleCompleteForm has one optional
\* field and accepts every request
DealScheduleComplete(x, u) ==
  /\ now < MaxTime
  /\ UNCHANGED <<dealTable, fileTable, commentTable, nextSchedule>>
  /\ IF x \notin DOMAIN schedules
     THEN /\ Reply("schedule_complete", 0, "", "not_found")
          /\ UNCHANGED <<activities, schedules>>
     ELSE LET self == [schedules[x] EXCEPT !.status = "COMPLETED",
                                           !.completed_at = {now + 1}]
          IN /\ schedules' = [schedules EXCEPT ![x] = DealSchedule_save(self, now + 1)]
             /\ activities' = Log(self.deal, Activity("EDITED", "", "", u))
             /\ Reply("schedule_complete", self.deal, "", "ok")

\* DealScheduleStatusUpdateView.post: a status outside the enumeration
\* changes nothing
\* DealScheduleStatusUpdateView.post as it would be if a schedule in
\* CLOSED_STATUSES kept its status
DealScheduleStatusUpdate_final(x, u, new_status) ==
  /\ now < MaxTime
  /\ UNCHANGED <<dealTable, fileTable, commentTable, nextSchedule>>
  /\ IF x \notin DOMAIN schedules
     THEN /\ Reply("schedule_status", 0, "", "not_found")
          /\ UNCHANGED <<activities, schedules>>
     ELSE IF \/ new_status \notin ScheduleStatus
             \/ schedules[x].status \in {"COMPLETED", "CANCELLED"}
     THEN /\ Reply("schedule_status", schedules[x].deal, "", "invalid")
          /\ UNCHANGED <<activities, schedules>>
     ELSE LET self == [schedules[x] EXCEPT
                         !.status = new_status,
                         !.completed_at =
                            IF new_status = "COMPLETED" THEN {now + 1} ELSE @]
          IN /\ schedules' = [schedules EXCEPT ![x] = DealSchedule_save(self, now + 1)]
             /\ activities' = Log(self.deal, Activity("EDITED", "", "", u))
             /\ Reply("schedule_status", self.deal, "", "ok")

DealScheduleStatusUpdate(x, u, new_status) ==
  /\ now < MaxTime
  /\ UNCHANGED <<dealTable, fileTable, commentTable, nextSchedule>>
  /\ IF x \notin DOMAIN schedules
     THEN /\ Reply("schedule_status", 0, "", "not_found")
          /\ UNCHANGED <<activities, schedules>>
     ELSE IF new_status \notin ScheduleStatus
     THEN /\ Reply("schedule_status", schedules[x].deal, "", "invalid")
          /\ UNCHANGED <<activities, schedules>>
     ELSE LET self == [schedules[x] EXCEPT
                         !.status = new_status,
                         !.completed_at =
                            IF new_status = "COMPLETED" THEN {now + 1} ELSE @]
          IN /\ schedules' = [schedules EXCEPT ![x] = DealSchedule_save(self, now + 1)]
             /\ activities' = Log(self.deal, Activity("EDITED", "", "", u))
             /\ Reply("schedule_status", self.deal, "", "ok")

\* ------------------------------------------------------------ comments
\* DealComment.save: the primary key is filled by its uuid4 default before
\* the first save, so the test on self.pk holds on every save
DealComment_save(self) == [self EXCEPT !.is_edited = TRUE]

\* DealCommentCreateView.post; parent is the parent_id of the request, {}
\* when it is absent; an empty content is turned down by the form
DealCommentCreate(d, u, parent, accepted) ==
  /\ now < MaxTime
  /\ UNCHANGED <<dealTable, fileTable, scheduleTable>>
  /\ IF ~accepted
     THEN /\ Reply("comment_add", d, "", "invalid")
          /\ UNCHANGED <<activities, commentTable>>
     ELSE IF d \notin live \/ ~(parent \subseteq DOMAIN comments)
     THEN /\ Reply("comment_add", d, "", "not_found")
          /\ UNCHANGED <<activities, commentTable>>
     ELSE LET row == [deal |-> d, author |-> u, parent |-> parent,
                      is_edited |-> FALSE]
          IN /\ nextComment' = nextComment + 1
             /\ comments' = Insert(comments, nextComment + 1, DealComment_save(row))
             /\ activities' = Log(d, Activity("COMMENT", "", "", u))
             /\ Reply("comment_add", d, "", "ok")

\* DealCommentDeleteView.delete as it would be without the test on the
\* author and is_staff
DealCommentDelete_anyone(x, u) ==
  /\ now < MaxTime
  /\ UNCHANGED <<dealTable, fileTable, scheduleTable, nextComment>>
  /\ IF x \notin DOMAIN comments
     THEN /\ Reply("comment_delete", 0, "", "not_found")
          /\ UNCHANGED <<activities, comments>>
     ELSE /\ activities' = Log(comments[x].deal, Activity("COMMENT", "", "", u))
          /\ comments' = Restrict(comments, DOMAIN comments \ Replies({x}))
          /\ Reply("comment_delete", comments[x].deal, "", "ok")

\* DealCommentDeleteView.delete: the author and staff may delete; the
\* replies cascade
DealCommentDelete(x, u) ==
  /\ now < MaxTime
  /\ UNCHANGED <<dealTable, fileTable, scheduleTable, nextComment>>
  /\ IF x \notin DOMAIN comments
     THEN /\ Reply("comment_delete", 0, "", "not_found")
          /\ UNCHANGED <<activities, comments>>
     ELSE IF comments[x].author # u /\ u \notin Staff
     THEN /\ Reply("comment_delete", comments[x].deal, "", "forbidden")
          /\ UNCHANGED <<activities, comments>>
     ELSE /\ activities' = Log(comments[x].deal, Activity("COMMENT", "", "", u))
          /\ comments' = Restrict(comments, DOMAIN comments \ Replies({x}))
          /\ Reply("comment_delete", comments[x].deal, "", "ok")

\* ---------------------------------------------------------------- specs
\* the forms: create, edit, delete and the detail page
FormRequests(U) ==
  \/ \E u \in U, f \in DealFormInputs(DealForm_initial) : DealCreate(u, f)
  \/ \E d \in live, u \in U :
        \E f \in DealFormInputs(DealForm_of(deals[d])) : DealUpdate(d, u, f)
  \/ \E d \in DealIds, u \in U : DealDelete(d, u)
  \/ \E d \in DealIds, u \in U : DealDetail(d, u)

\* the Kanban board: drag-and-drop moves and the close modal
BoardRequests(U) ==
  \/ \E d \in DealIds, u \in U, s \in StageInputs, p \in PositionInputs :
        MoveDeal(d, u, s, p)
  \/ \E d \in DealIds, u \in U, f \in DealCloseFormInputs : CloseDeal(d, u, f)

\* one user works the pipeline
Next == FormRequests({"u1"}) \/ BoardRequests({"u1"})

Spec == Init /\ [][Next]_vars

\* a second user works the board as well
NextActors == FormRequests({"u1"}) \/ BoardRequests(Users)

SpecActors == Init /\ [][NextActors]_vars

\* the Kanban board with clients that send the column a card came from
NextBoard ==
  \/ FormRequests({"u1"})
  \/ \E u \in {"u1"} : KanbanBoard(u)
  \/ \E d \in DealIds, u \in {"u1"}, s \in StageInputs, src \in SourceInputs,
         p \in PositionInputs :
        MoveDealView(d, u, s, src, p)

SpecBoard == Init /\ [][NextBoard]_vars

\* the deal detail page: files, schedules and comments of a deal
FileRequests(U) ==
  \/ \E d \in DealIds, u \in U, name \in FileNames, accepted \in BOOLEAN :
        DealFileUpload(d, u, name, accepted)
  \/ \E x \in RowIds, u \in U : DealFileDelete(x, u)

ScheduleRequests(U) ==
  \/ \E d \in DealIds, u \in U, accepted \in BOOLEAN :
        DealScheduleCreate(d, u, accepted)
  \/ \E x \in RowIds, u \in U, accepted \in BOOLEAN :
        DealScheduleUpdate(x, u, accepted)
  \/ \E x \in RowIds, u \in U : DealScheduleDelete(x, u)
  \/ \E x \in RowIds, u \in U : DealScheduleComplete(x, u)
  \/ \E x \in RowIds, u \in U, st \in StatusInputs :
        DealScheduleStatusUpdate(x, u, st)

CommentRequests(U) ==
  \/ \E d \in DealIds, u \in U, accepted \in BOOLEAN :
        \E parent \in {{}} \cup {{x} : x \in RowIds} :
           DealCommentCreate(d, u, parent, accepted)
  \/ \E x \in RowIds, u \in U : DealCommentDelete(x, u)

\* a deal created with the form as rendered
DealCreateDefault == \E f \in {DealForm_initial} : DealCreate("u1", f)

\* the files of the deals
NextFiles ==
  \/ DealCreateDefault
  \/ \E d \in DealIds : DealDelete(d, "u1")
  \/ \E d \in DealIds, name \in FileNames, accepted \in BOOLEAN :
        DealFileUpload(d, "u1", name, accepted)
  \/ \E x \in EarlyRowIds : DealFileDelete(x, "u1")

SpecFiles == InitEarly /\ [][NextFiles]_vars

\* the schedules of the deals
NextSchedules ==
  \/ DealCreateDefault
  \/ \E d \in DealIds, accepted \in BOOLEAN : DealScheduleCreate(d, "u1", accepted)
  \/ \E x \in EarlyRowIds, accepted \in BOOLEAN :
        DealScheduleUpdate(x, "u1", accepted)
  \/ \E x \in EarlyRowIds : DealScheduleDelete(x, "u1")
  \/ \E x \in EarlyRowIds : DealScheduleComplete(x, "u1")
  \/ \E x \in EarlyRowIds, st \in StatusInputs :
        DealScheduleStatusUpdate(x, "u1", st)

SpecSchedules == InitEarly /\ [][NextSchedules]_vars

\* two workers and one card: each user moves the card, one request at a
\* time, and the statements of the two requests interleave
NextRace ==
  \/ nextId = 0 /\ DealCreateDefault
  \/ \E u \in Users, d \in DealIds, s \in StageInputs, p \in PositionInputs :
        MoveDealView_read(u, d, s, p)
  \/ \E u \in Users : Deal_save_get(u)
  \/ \E u \in Users : Deal_save_write(u)
  \/ \E u \in Users : MoveDealView_log(u)

SpecRace == Init /\ [][NextRace]_vars

\* two workers and one deal: each user uploads files, one request at a
\* time, and the statements of the two requests interleave
NextUploads ==
  \/ nextId = 0 /\ DealCreateDefault
  \/ \E u \in Users, d \in DealIds, name \in FileNames :
        DealFileUpload_lookup(u, d, name)
  \/ \E u \in Users : DealFileUpload_demote(u)
  \/ \E u \in Users : DealFileUpload_insert(u)
  \/ \E u \in Users : DealFileUpload_log(u)

SpecUploads == Init /\ [][NextUploads]_vars

\* the board worked on deals whose details differ
NextFrame ==
  \/ \E f \in DealFormDetails(DealForm_initial) : DealCreate("u1", f)
  \/ \E d \in DealIds, s \in StageInputs, p \in PositionInputs :
        MoveDeal(d, "u1", s, p)
  \/ \E d \in DealIds, f \in DealCloseFormNotes : CloseDeal(d, "u1", f)

SpecFrame == Init /\ [][NextFrame]_vars

\* the comments of the deals, written and deleted by both users
NextComments ==
  \/ DealCreateDefault
  \/ \E d \in DealIds, u \in Users, accepted \in BOOLEAN :
        \E parent \in {{}} \cup {{x} : x \in 1..MaxComments} :
           /\ nextComment < MaxComments
           /\ DealCommentCreate(d, u, parent, accepted)
  \/ \E x \in 1..MaxComments, u \in Users : DealCommentDelete(x, u)

SpecComments == InitEarly /\ [][NextComments]_vars

\* every page of the pipeline; both users comment
NextAudit ==
  \/ FormRequests({"u1"})
  \/ BoardRequests({"u1"})
  \/ FileRequests({"u1"})
  \/ ScheduleRequests({"u1"})
  \/ CommentRequests(Users)

SpecAudit == Init /\ [][NextAudit]_vars

\* ================================================================ claims
\* a close request that names no sub-reason for the stage it closes to
NoSubReason(f) ==
  \/ f.stage = "CLOSED_LOST" /\ f.closed_lost_reason = ""
  \/ f.stage = "DECLINED_TO_BID" /\ f.declined_reason = ""

\* C1: a move_deal to CLOSED_LOST or DECLINED_TO_BID (which carries no
\* sub-reason) and a close_deal to one of them with an empty sub-reason are
\* rejected: no deal row changes, no deal appears or disappears and no
\* activity is appended.  (Every handler records its name and its deal in
\* last, so only the steps of the two handlers need a look.)
C1_NoReasonRejected ==
  [][/\ last'.op = "move_deal" =>
          \A u \in Users, p \in PositionInputs :
             \A s \in {"CLOSED_LOST", "DECLINED_TO_BID"} :
                MoveDeal(last'.deal, u, s, p) =>
                  /\ UNCHANGED <<deals, live, activities>>
                  /\ last'.status \in {"needs_reason", "not_found"}
     /\ last'.op = "close_deal" =>
          \A u \in Users, f \in DealCloseFormInputs :
             NoSubReason(f) /\ CloseDeal(last'.deal, u, f) =>
               /\ UNCHANGED <<deals, live, activities>>
               /\ last'.status \in {"invalid", "not_found"}]_vars

\* a close to CLOSED_LOST or DECLINED_TO_BID was just refused for a deal that
\* is still in an active stage
C1_Witness ==
  /\ last.op = "close_deal"
  /\ last.status = "invalid"
  /\ last.stage \in {"CLOSED_LOST", "DECLINED_TO_BID"}
  /\ last.deal \in live
  /\ deals[last.deal].stage \in ACTIVE_STAGES

\* C2: when a deal whose actual_value is unset is moved or closed to
\* CLOSED_WON by a request that supplies no actual value, its actual_value
\* afterwards is the estimated_value it had before the request.
C2_WonDefaultsToEstimate ==
  [][\A d \in live \cap {last'.deal} :
       deals[d].actual_value = {} =>
         /\ \A u \in Users, p \in PositionInputs :
              p >= 0 /\ MoveDeal(d, u, "CLOSED_WON", p) =>
                /\ deals'[d].stage = "CLOSED_WON"
                /\ deals'[d].actual_value = deals[d].estimated_value
         /\ \A u \in Users, f \in DealCloseFormInputs :
              f.stage = "CLOSED_WON" /\ f.actual_value = {} /\ CloseDeal(d, u, f) =>
                /\ deals'[d].stage = "CLOSED_WON"
                /\ deals'[d].actual_value = deals[d].estimated_value]_vars

\* a deal created with an estimate and no actual value (the log shows no
\* edit) was just moved or closed to CLOSED_WON and carries the estimate
C2_Witness ==
  /\ last.status = "ok"
  /\ last.op \in {"move_deal", "close_deal"}
  /\ last.stage = "CLOSED_WON"
  /\ last.deal \in live
  /\ Len(activities[last.deal]) = 2
  /\ deals[last.deal].estimated_value = {1}
  /\ deals[last.deal].actual_value = {1}

C4_ClosedHasCloseDate ==
  \A d \in live :
    deals[d].stage \in CLOSED_STAGES => deals[d].actual_close_date # {}

\* C5: a request refreshes a deal's stage_changed_at to the time of the
\* request exactly when it changes the deal's persisted stage; a reorder or
\* an edit that keeps the stage leaves it as it was.
C5_StageChangedAt ==
  [][\A d \in live \cap live' :
       IF deals'[d].stage # deals[d].stage
       THEN deals'[d].stage_changed_at = now'
       ELSE deals'[d].stage_changed_at = deals[d].stage_changed_at]_vars

\* a move within the deal's own column was just logged, and stage_changed_at
\* still shows an earlier instant
C5_Witness ==
  /\ last.op = "move_deal"
  /\ last.status = "ok"
  /\ last.deal \in live
  /\ LET log == activities[last.deal]
     IN log[Len(log)].old_value = log[Len(log)].new_value
  /\ deals[last.deal].stage_changed_at < now

\* the handlers that write
WriteOps ==
  {"create", "edit", "move_deal", "close_deal", "file_upload", "file_delete",
   "comment_add", "comment_delete", "schedule_add", "schedule_edit",
   "schedule_remove", "schedule_complete", "schedule_status"}

\* the number of DealActivity rows of deal d in the table log
Count(log, d) == IF d \in DOMAIN log THEN Len(log[d]) ELSE 0

\* C6: a request adds exactly one DealActivity row to the deal it is about
\* when it is a write that was applied (it answers with success, or it
\* changed the row of the deal), and no request adds or removes a row of any
\* other existing deal; reads and rejected requests add none.
C6_OneEntryPerWrite ==
  [][\A d \in live' :
        LET applied ==
              /\ last'.deal = d
              /\ last'.op \in WriteOps
              /\ \/ last'.status = "ok"
                 \/ d \in live /\ deals'[d] # deals[d]
        IN Count(activities', d) - Count(activities, d)
             = IF applied THEN 1 ELSE 0]_vars

\* C7: every move_deal or close_deal that succeeds appends one STAGE_CHANGED
\* entry to the deal's log: old_value the stage persisted before the request,
\* new_value the stage persisted after it, user the requesting user.
C7_StageChangeLogged ==
  [][last'.status = "ok" /\ last'.op \in {"move_deal", "close_deal"} =>
       \A d \in live \cap {last'.deal}, u \in Users :
          /\ \A s \in StageInputs, p \in PositionInputs :
               MoveDeal(d, u, s, p) =>
                 activities'[d] =
                   Append(activities[d],
                          Activity("STAGE_CHANGED", deals[d].stage, deals'[d].stage, u))
          /\ \A f \in DealCloseFormInputs :
               CloseDeal(d, u, f) =>
                 activities'[d] =
                   Append(activities[d],
                          Activity("STAGE_CHANGED", deals[d].stage, deals'[d].stage, u))]_vars

\* the second user just moved or closed a deal the first user created, and
\* the log's newest entry names the second user and the deal's stage
C7_Witness ==
  /\ last.status = "ok"
  /\ last.op \in {"move_deal", "close_deal"}
  /\ last.deal \in live
  /\ LET log == activities[last.deal]
     IN /\ log[1].user = "u1"
        /\ log[Len(log)].activity_type = "STAGE_CHANGED"
        /\ log[Len(log)].user = "u2"
        /\ log[Len(log)].old_value # log[Len(log)].new_value
        /\ log[Len(log)].new_value = deals[last.deal].stage

\* C8: the log of a deal that exists after a step begins with its log before
\* the step, entry for entry, and a deal (with its log) is gone after a step
\* only when that step is the deletion of the deal.
C8_AppendOnly ==
  [][\A d \in live :
        IF d \in live'
        THEN /\ Len(activities'[d]) >= Len(activities[d])
             /\ SubSeq(activities'[d], 1, Len(activities[d])) = activities[d]
        ELSE last' = Response("delete", d, "", "ok")]_vars

\* a deal whose log has grown to three entries by a file upload and the
\* removal of the file
C8_Witness ==
  /\ last.op = "file_delete"
  /\ last.status = "ok"
  /\ Len(activities[last.deal]) = 3
  /\ activities[last.deal][1].activity_type = "CREATED"
  /\ activities[last.deal][2].activity_type = "FILE_ADDED"
  /\ activities[last.deal][3].activity_type = "FILE_REMOVED"

\* C9: a move_deal whose stage code is none of the nine stages changes no
\* deal and appends no activity, and every persisted stage is one of the nine.
C9_UnknownStageRejected ==
  [][/\ last'.op = "move_deal" =>
          \A u \in Users, p \in PositionInputs :
             \A s \in StageInputs \ Stage :
                MoveDeal(last'.deal, u, s, p) => UNCHANGED <<deals, activities>>
     /\ \A d \in live' : deals'[d].stage \in Stage]_vars

\* C10: every deal in CLOSED_LOST has a closed_lost_reason and every deal in
\* DECLINED_TO_BID has a declined_reason.
C10_ClosedHasReason ==
  \A d \in live :
    /\ deals[d].stage = "CLOSED_LOST" => deals[d].closed_lost_reason # ""
    /\ deals[d].stage = "DECLINED_TO_BID" => deals[d].declined_reason # ""


\* ------------------------------------------------- the Kanban aggregates
\* the number of deals of the table in stage s
StageCount(table, s) == Cardinality({d \in DOMAIN table : table[d].stage = s})

\* the estimated values of the deals in rows added up, NULL counted as 0
RECURSIVE ValueSum(_, _)
ValueSum(table, rows) ==
  IF rows = {} THEN 0
  ELSE LET d == CHOOSE x \in rows : TRUE
           v == table[d].estimated_value
       IN (IF v = {} THEN 0 ELSE CHOOSE x \in v : TRUE)
            + ValueSum(table, rows \ {d})

\* the counts of the first n groups of a stages_data list added up
RECURSIVE CountSum(_, _)
CountSum(data, n) == IF n = 0 THEN 0 ELSE CountSum(data, n - 1) + data[n].count

\* the groups of a stages_data list that list deal d
GroupsOf(data, d) ==
  {i \in DOMAIN data : \E k \in DOMAIN data[i].deals : data[i].deals[k] = d}

\* C11: the Kanban board lists every deal of the table in exactly one of its
\* nine stage groups, once, and the counts of the nine groups add up to the
\* number of deals.
C11_EveryDealInOneGroup ==
  last.op = "board" =>
    /\ \A d \in live :
          /\ Cardinality(GroupsOf(context.stages, d)) = 1
          /\ \A i \in GroupsOf(context.stages, d) :
                Cardinality({k \in DOMAIN context.stages[i].deals :
                               context.stages[i].deals[k] = d}) = 1
    /\ CountSum(context.stages, Len(context.stages)) = Cardinality(live)

\* C12: the board's total_pipeline_value is the sum of estimated_value (NULL
\* as 0) over the deals in the six active stages, whatever the deals in the
\* closed stages are worth, and a stage without deals is shown with count 0
\* and value 0.
C12_ActivePipelineValue ==
  last.op = "board" =>
    /\ context.total_pipeline_value
         = ValueSum(deals, {d \in live : deals[d].stage \in ACTIVE_STAGES})
    /\ \A i \in DOMAIN context.stages :
          StageCount(deals, context.stages[i].stage) = 0 =>
             /\ context.stages[i].count = 0
             /\ context.stages[i].total_value = 0

\* a board with a valued deal in a closed stage and an empty active pipeline
C12_Witness ==
  /\ last.op = "board"
  /\ \E d \in live :
        deals[d].stage \in CLOSED_STAGES /\ deals[d].estimated_value = {1}
  /\ context.total_pipeline_value = 0
  /\ \E i \in DOMAIN context.stages : context.stages[i].count = 0

\* C13: over the same table, the count and value of every stage and the
\* active-pipeline total of the board's single pass equal those of the
\* per-stage queries of move_deal: the board agrees with the queries, and
\* the counters a move returns agree with the single pass.
C13_SinglePassEqualsQueries ==
  /\ last.op = "board" =>
        \A i \in DOMAIN context.stages :
           LET q == MoveDeal_context(deals, context.stages[i].stage,
                                     context.stages[i].stage)
           IN /\ context.stages[i].count = q.source_count
              /\ context.stages[i].count = q.target_count
              /\ context.stages[i].total_value = q.source_value
              /\ context.stages[i].total_value = q.target_value
              /\ context.total_pipeline_value = q.total_pipeline
  /\ last.op = "move_deal" /\ last.status = "ok" =>
        LET board == KanbanBoardView_context(deals)
        IN /\ context.total_pipeline = board.total_pipeline_value
           /\ \A i \in DOMAIN board.stages :
                 /\ board.stages[i].stage = context.target_stage =>
                       /\ board.stages[i].count = context.target_count
                       /\ board.stages[i].total_value = context.target_value
                 /\ board.stages[i].stage = context.source_stage =>
                       /\ board.stages[i].count = context.source_count
                       /\ board.stages[i].total_value = context.source_value

\* a board with a stage of two deals, one valued and one without a value
C13_Witness ==
  /\ last.op = "board"
  /\ \E i \in DOMAIN context.stages :
        /\ context.stages[i].count = 2
        /\ context.stages[i].total_value = 1
        /\ \E d \in live :
              deals[d].stage = context.stages[i].stage
                /\ deals[d].estimated_value = {}

\* C14: a move_deal answered with success that takes deal D from its
\* persisted stage S to another stage T returns T's count and value before
\* the move plus D, and S's count and value before the move minus D.
C14_MoveCounters ==
  [][last'.op = "move_deal" /\ last'.status = "ok" =>
       \A d \in live \cap {last'.deal} :
          LET S == deals[d].stage
              T == last'.stage
              InS == {x \in live : deals[x].stage = S}
              InT == {x \in live : deals[x].stage = T}
          IN S # T =>
               /\ context'.target_count = Cardinality(InT) + 1
               /\ context'.target_value
                    = ValueSum(deals, InT) + ValueSum(deals, {d})
               /\ context'.source_count = Cardinality(InS) - 1
               /\ context'.source_value
                    = ValueSum(deals, InS) - ValueSum(deals, {d})]_vars

\* ---------------------------------------------------------------- files
\* the current files of deal d named name in the table
CurrentFiles(table, d, name) ==
  {x \in DOMAIN table :
     /\ table[x].deal = d
     /\ table[x].original_filename = name
     /\ table[x].is_current}

\* C15: with uploads and deletions handled one at a time, a deal never has
\* two current files of the same original filename.
C15_OneCurrentPerName ==
  \A d \in DealIds, name \in FileNames :
     Cardinality(CurrentFiles(files, d, name)) <= 1

\* three versions of one filename, the last one current
C15_Witness ==
  \E x \in DOMAIN files, y \in DOMAIN files, z \in DOMAIN files :
     /\ files[x].deal = files[y].deal /\ files[y].deal = files[z].deal
     /\ files[x].original_filename = files[y].original_filename
     /\ files[y].original_filename = files[z].original_filename
     /\ files[x].version = 1 /\ ~files[x].is_current
     /\ files[y].version = 2 /\ ~files[y].is_current
     /\ files[z].version = 3 /\ files[z].is_current

\* C16: an accepted upload adds one file, which is current; when the deal
\* had a current file of that name, that file is no longer current, the new
\* file's previous_version is that file and its version is one more; when it
\* had none, the new file has version 1 and no previous_version.  No other
\* file changes.
C16_UploadVersions ==
  [][last'.op = "file_upload" /\ last'.status = "ok" =>
       LET new == nextFile + 1
           cur == CurrentFiles(files, last'.deal, files'[new].original_filename)
       IN /\ DOMAIN files' = DOMAIN files \cup {new}
          /\ new \notin DOMAIN files
          /\ files'[new].deal = last'.deal
          /\ files'[new].is_current
          /\ IF cur # {}
             THEN \E x \in cur :
                     /\ ~files'[x].is_current
                     /\ files'[new].previous_version = {x}
                     /\ files'[new].version = files[x].version + 1
             ELSE /\ files'[new].version = 1
                  /\ files'[new].previous_version = {}
          /\ \A y \in DOMAIN files \ cur : files'[y] = files[y]]_vars

\* a name uploaded again after its current version was deleted starts over
\* at version 1 beside the old, non-current version 1
C16_Witness ==
  /\ last.op = "file_upload"
  /\ last.status = "ok"
  /\ \E x \in DOMAIN files :
        /\ x # nextFile
        /\ files[x].deal = files[nextFile].deal
        /\ files[x].original_filename = files[nextFile].original_filename
        /\ ~files[x].is_current
        /\ files[nextFile].version = 1
        /\ files[nextFile].previous_version = {}

\* C17: a file deletion removes that row only and appends one FILE_REMOVED
\* entry to the log of its deal; every other file keeps its is_current flag
\* and its version, so no file of the name of a deleted current version is
\* current afterwards.
C17_DeleteFrame ==
  [][last'.op = "file_delete" /\ last'.status = "ok" =>
       \E x \in DOMAIN files :
          /\ DOMAIN files' = DOMAIN files \ {x}
          /\ files[x].deal = last'.deal
          /\ \A y \in DOMAIN files' :
                /\ files'[y].is_current = files[y].is_current
                /\ files'[y].version = files[y].version
                /\ files'[y].deal = files[y].deal
                /\ files'[y].original_filename = files[y].original_filename
          /\ Len(activities'[last'.deal]) = Len(activities[last'.deal]) + 1
          /\ SubSeq(activities'[last'.deal], 1, Len(activities[last'.deal]))
               = activities[last'.deal]
          /\ activities'[last'.deal][Len(activities'[last'.deal])].activity_type
               = "FILE_REMOVED"
          /\ \A d \in live \ {last'.deal} : activities'[d] = activities[d]
          /\ UNCHANGED <<deals, live, schedules, comments>>
          /\ files[x].is_current =>
                CurrentFiles(files', files[x].deal, files[x].original_filename) = {}]_vars

\* the current version 2 of a name was deleted: version 1 is still there and
\* it is not current
C17_Witness ==
  /\ last.op = "file_delete"
  /\ last.status = "ok"
  /\ nextFile = 2
  /\ \E x \in DOMAIN files :
        /\ files[x].version = 1
        /\ ~files[x].is_current
        /\ CurrentFiles(files, files[x].deal, files[x].original_filename) = {}

\* ------------------------------------------------------------ schedules
\* C18: once a schedule's completed_at is set, no request changes it:
\* completing again, or leaving COMPLETED and coming back, keeps the instant
\* of the first completion.
C18_CompletedAtOnce ==
  [][\A x \in DOMAIN schedules \cap DOMAIN schedules' :
        schedules[x].completed_at # {} =>
           schedules'[x].completed_at = schedules[x].completed_at]_vars

\* C19: a status update of an existing schedule with one of the six
\* statuses is applied whatever the current status is: the status becomes
\* the requested one and one EDITED entry is appended to the log of the
\* deal; with any other value the schedule and the logs stay as they are.
C19_StatusMembership ==
  [][last'.op = "schedule_status" =>
       \A x \in DOMAIN schedules, u \in Users, st \in StatusInputs :
          DealScheduleStatusUpdate(x, u, st) =>
            LET d == schedules[x].deal
            IN IF st \in ScheduleStatus
               THEN /\ schedules'[x].status = st
                    /\ activities'[d]
                         = Append(activities[d], Activity("EDITED", "", "", u))
                    /\ \A e \in live \ {d} : activities'[e] = activities[e]
                    /\ last'.status = "ok"
               ELSE /\ schedules' = schedules
                    /\ activities' = activities
                    /\ last'.status = "invalid"]_vars

\* a completed schedule was put back to IN_PROGRESS
C19_Witness ==
  /\ last.op = "schedule_status"
  /\ last.status = "ok"
  /\ \E x \in DOMAIN schedules :
        /\ schedules[x].status = "IN_PROGRESS"
        /\ schedules[x].completed_at # {}
        /\ schedules[x].deal = last.deal

\* ------------------------------------------------------------- comments
\* C20: a comment that was created and never saved again has is_edited
\* false.  (No view saves a comment a second time, so every stored comment
\* is such a comment.)
C20_NewCommentNotEdited ==
  \A c \in DOMAIN comments : ~comments[c].is_edited

BothMoved(d) ==
  \A u \in Users : inflight[u].pc = "done" /\ inflight[u].deal = d

\* the user whose write of card d was committed last
LastWriter(d) ==
  CHOOSE u \in Users :
    \A v \in Users :
      \A t \in inflight[u].committed_at, tv \in inflight[v].committed_at :
        tv <= t

\* C22: when two move_deal requests on one deal, to stages that need no
\* sub-reason, run with their read, save and log statements interleaved in
\* any order, the stage stored after both have answered is the stage asked
\* by the request whose save was committed last, and each of the two
\* requests appends exactly one STAGE_CHANGED entry to the log of the deal:
\* its log statement appends one and no other statement of a move appends
\* or removes any.
C22_LastWriteWins ==
  [][/\ \A d \in live' :
          BothMoved(d)' => deals'[d].stage = inflight'[LastWriter(d)'].new_stage
     /\ \A u \in Users :
          /\ inflight[u].pc = "saved" /\ inflight'[u].pc = "done"
               => LET d == inflight[u].deal
                  IN /\ Len(activities'[d]) = Len(activities[d]) + 1
                     /\ SubSeq(activities'[d], 1, Len(activities[d])) = activities[d]
                     /\ activities'[d][Len(activities'[d])] =
                          Activity("STAGE_CHANGED", inflight[u].old_stage,
                                   inflight[u].new_stage, u)
          /\ inflight[u].pc # "saved" /\ inflight'[u] # inflight[u]
               => \A d \in live : activities'[d] = activities[d]]_vars

\* both requests read the card before either wrote it, then both wrote and
\* logged, asking for two different stages
C22_Witness ==
  \E d \in live :
    /\ BothMoved(d)
    /\ inflight["u1"].new_stage # inflight["u2"].new_stage
    /\ inflight["u1"].old_stage = inflight["u2"].old_stage
    /\ inflight["u1"].old_stage \notin
         {inflight["u1"].new_stage, inflight["u2"].new_stage}
    /\ deals[d].stage = inflight["u1"].new_stage
    /\ inflight["u1"].committed_at = {3}

\* C23: after two interleaved move_deal requests on one deal, their two
\* STAGE_CHANGED entries stand in the log in the order in which the two
\* writes were committed: the later entry has the stored stage as new_value
\* and the new_value of the earlier entry as old_value.
C23_LogInCommitOrder ==
  \A d \in live :
    BothMoved(d) =>
      LET log == activities[d]
          n == Len(log)
      IN (n >= 2 /\ log[n].user # log[n - 1].user
            /\ log[n - 1].activity_type = "STAGE_CHANGED")
           => /\ log[n].new_value = deals[d].stage
              /\ log[n].old_value = log[n - 1].new_value

\* ------------------------------------------------------- a retried move
\* C24: a move_deal request that repeats the request answered just before
\* it (same deal, same stage, same position) leaves stage, position,
\* stage_changed_at, actual_value and actual_close_date of the deal as the
\* first execution left them.
C24_RetriedMoveKeepsRow ==
  [][\A d \in live, u \in {"u1"}, s \in StageInputs, src \in SourceInputs,
        p \in PositionInputs :
       (/\ last.op = "move_deal" /\ last.status = "ok"
        /\ last.deal = d /\ last.stage = s
        /\ deals[d].position = p
        /\ last'.op = "move_deal"
        /\ MoveDealView(d, u, s, src, p))
       => /\ d \in live'
          /\ deals'[d].stage = deals[d].stage
          /\ deals'[d].position = deals[d].position
          /\ deals'[d].stage_changed_at = deals[d].stage_changed_at
          /\ deals'[d].actual_value = deals[d].actual_value
          /\ deals'[d].actual_close_date = deals[d].actual_close_date]_vars

\* a card was dropped on Closed Won and the same request was sent again;
\* the deal keeps the instant and the value of the first execution
C24_Witness ==
  /\ last.op = "move_deal"
  /\ last.status = "ok"
  /\ last.deal \in live
  /\ LET d == last.deal
         log == activities[d]
         n == Len(log)
     IN /\ n >= 3
        /\ log[n] = Activity("STAGE_CHANGED", "CLOSED_WON", "CLOSED_WON", "u1")
        /\ log[n - 1] = Activity("STAGE_CHANGED", "NEW_REQUEST", "CLOSED_WON", "u1")
        /\ deals[d].stage = "CLOSED_WON"
        /\ deals[d].stage_changed_at = now - 1
        /\ deals[d].actual_close_date = {now - 1}
        /\ deals[d].actual_value = {1}

\* ------------------------------------------- stage changes and the log
\* C25: whenever a request changes the stored stage of a deal, whichever
\* handler serves it (move, close or the edit form), it appends one
\* STAGE_CHANGED entry to the log of the deal, with the stage before as
\* old_value and the stage after as new_value.
C25_EveryStageChangeLogged ==
  [][\A d \in live \cap live' :
       deals'[d].stage # deals[d].stage
         => /\ Len(activities'[d]) = Len(activities[d]) + 1
            /\ activities'[d][Len(activities'[d])].activity_type = "STAGE_CHANGED"
            /\ activities'[d][Len(activities'[d])].old_value = deals[d].stage
            /\ activities'[d][Len(activities'[d])].new_value = deals'[d].stage]_vars

\* C26: every STAGE_CHANGED entry of every log records a change: its
\* old_value differs from its new_value.
C26_StageChangedIsAChange ==
  \A d \in DOMAIN activities :
    \A i \in DOMAIN activities[d] :
      activities[d][i].activity_type = "STAGE_CHANGED"
        => activities[d][i].old_value # activities[d][i].new_value

\* ------------------------------------------- the actual value of a close
\* C28: a close_deal request to CLOSED_WON that supplies an actual value v,
\* zero included, and succeeds leaves v as the actual_value of the deal.
C28_SuppliedActualValueStored ==
  [][\A d \in live \cap {last'.deal}, u \in {"u1"}, f \in DealCloseFormInputs :
       (/\ last'.op = "close_deal" /\ last'.status = "ok"
        /\ f.stage = "CLOSED_WON" /\ f.actual_value # {}
        /\ CloseDeal(d, u, f))
       => deals'[d].actual_value = f.actual_value]_vars

\* ------------------------------------------------ versions of one name
\* C29: the version numbers of the stored files of one deal and one
\* original filename are pairwise distinct.
C29_VersionsDistinct ==
  \A x \in DOMAIN files, y \in DOMAIN files :
    (/\ x # y
     /\ files[x].deal = files[y].deal
     /\ files[x].original_filename = files[y].original_filename)
    => files[x].version # files[y].version

\* C27: when uploads of two workers to one deal interleave statement by
\* statement, two stored files of one deal and one original filename are
\* never both current and never carry the same version number.
C27_InterleavedUploads ==
  \A x \in DOMAIN files, y \in DOMAIN files :
    (/\ x # y
     /\ files[x].deal = files[y].deal
     /\ files[x].original_filename = files[y].original_filename)
    => /\ ~(files[x].is_current /\ files[y].is_current)
       /\ files[x].version # files[y].version

\* ------------------------------------------------------ what a move keeps
\* C30: a move_deal request changes no column of the deal other than stage,
\* position, stage_changed_at, actual_close_date and actual_value: it leaves
\* probability, estimated_value, closed_lost_reason, declined_reason,
\* close_notes, owner and client as they were, and it changes actual_value
\* only when the stage asked is CLOSED_WON and the deal has no actual_value.
C30_MoveFrame ==
  [][\A d \in live \cap live' :
       last'.op = "move_deal" =>
         /\ deals'[d].probability = deals[d].probability
         /\ deals'[d].estimated_value = deals[d].estimated_value
         /\ deals'[d].closed_lost_reason = deals[d].closed_lost_reason
         /\ deals'[d].declined_reason = deals[d].declined_reason
         /\ deals'[d].close_notes = deals[d].close_notes
         /\ deals'[d].owner = deals[d].owner
         /\ deals'[d].client = deals[d].client
         /\ deals'[d].actual_value # deals[d].actual_value =>
              /\ deals'[d].stage = "CLOSED_WON"
              /\ deals[d].actual_value = {}]_vars
====
